---- MODULE Spec2Model ----
(***************************************************************************)
(* Model of windoptimization.py: the wind-energy exchange optimisation     *)
(* between Kosovo (XK) and North Macedonia (MK).  The script is one        *)
(* sequential pipeline: read and filter the two series, create the         *)
(* decision variables, set the objective, add four constraints per         *)
(* timestamp, solve, extract the values into a table and write it.         *)
(*                                                                         *)
(* The flag z[t] is stored doubled (field z2 holds 2*z[t]) so that the     *)
(* fractional value 1/2, which a continuous relaxation of z would admit,   *)
(* is representable with integers: z2 = 0 is z = 0, z2 = 2 is z = 1.       *)
(***************************************************************************)
EXTENDS Integers, Sequences, FiniteSets

VARIABLES kosovo_data, macedonia_data, koha, ruajtja_km, ruajtja_mk, z,
          objective, constraints, i, status, solution, rezultatet,
          csv_written, pc, err

vars == <<kosovo_data, macedonia_data, koha, ruajtja_km, ruajtja_mk, z,
          objective, constraints, i, status, solution, rezultatet,
          csv_written, pc, err>>

(* ---------------- bounds and domains ---------------- *)

\* number of distinct timestamps of the filtered period
MaxTime == 2

Times == 1..MaxTime

\* production readings: a negative one, two ordinary ones, one above M
ProdVals == {-1, 4, 10, 1500}

\* the big constant of the exclusivity constraints
M == 1000

\* values a continuous export variable is sampled at
Grid == {-1, 0, 1, M} \cup ProdVals

\* doubled values of the flag: 0, 1/2, 1
HalfZ == {0, 1, 2}

\* what varValue holds after a solve that did not end Optimal: the script
\* does not determine it (a number or None, as the solver left it) and never
\* inspects it, so it is kept as an opaque marker
Unspecified == "unspecified"

(* ---------------- the data frames ---------------- *)

SeqsUpTo(S, n) == UNION {[1..k -> S] : k \in 0..n}

Chronological(s) == \A a, b \in 1..Len(s) : a < b => s[a].time < s[b].time

\* kosovo_data after the 2014-2022 filter: rows in any order, a timestamp
\* may be repeated
KosovoFrames == SeqsUpTo([time : Times, XK : ProdVals], MaxTime)

\* macedonia_data after the filter: one row per timestamp, chronological
MacedoniaFrames ==
    {s \in SeqsUpTo([time : Times, MK : ProdVals], MaxTime) : Chronological(s)}

\* data.loc[data['time'] == t, col].values
Values(data, col, t) ==
    LET m == SelectSeq(data, LAMBDA r : r.time = t)
    IN  [j \in 1..Len(m) |-> m[j][col]]

\* kosovo_data['time'].tolist()
TimeList(data) == [j \in 1..Len(data) |-> data[j].time]

Range(s) == {s[j] : j \in 1..Len(s)}

Count(s, t) == Cardinality({j \in 1..Len(s) : s[j] = t})

(* ---------------- the model builder ---------------- *)

\* LpVariable(..., lowBound=0, cat="Continuous")
NewExportVar == [lowBound |-> 0, cat |-> "Continuous"]

\* variant: the flag declared continuous
NewFlagVar_Continuous == [cat |-> "Continuous"]

\* LpVariable(..., cat="Binary")
NewFlagVar == [cat |-> "Binary"]

\* LpVariable.dicts(name, koha, ...): one variable per key
Dicts(keys, v) == [t \in Range(keys) |-> v]

\* lpSum(ruajtja_km[t] + ruajtja_mk[t] for t in koha): coefficient of each
\* variable is the number of times its key is listed
LpSumObjective(keys) ==
    [km |-> [t \in Range(keys) |-> Count(keys, t)],
     mk |-> [t \in Range(keys) |-> Count(keys, t)]]

\* variant: the first constraint written with (1 - z[t])
BigM_km_Inverted(t) == [var |-> "km", t |-> t, zcoef |-> 0 - M, const |-> M]

\* a constraint  var[t] <= zcoef * z[t] + const
\* ruajtja_km[t] <= z[t] * M
BigM_km(t) == [var |-> "km", t |-> t, zcoef |-> M, const |-> 0]

\* variant: the second constraint written with z[t] like the first
BigM_mk_SameFlag(t) == [var |-> "mk", t |-> t, zcoef |-> M, const |-> 0]

\* ruajtja_mk[t] <= (1 - z[t]) * M
BigM_mk(t) == [var |-> "mk", t |-> t, zcoef |-> 0 - M, const |-> M]

\* ruajtja_km[t] <= XK value of t
Cap_km(t, xk) == [var |-> "km", t |-> t, zcoef |-> 0, const |-> xk]

\* variant: the Macedonian cap put on the Kosovo variable
Cap_mk_OnKm(t, mk) == [var |-> "km", t |-> t, zcoef |-> 0, const |-> mk]

\* ruajtja_mk[t] <= MK value of t
Cap_mk(t, mk) == [var |-> "mk", t |-> t, zcoef |-> 0, const |-> mk]

(* ---------------- the solver ---------------- *)

\* value x of the export variable of c and doubled flag value x2 satisfy c
Sat(c, x, x2) == 2 * x <= c.zcoef * x2 + 2 * c.const

AdmitsExport(v, x) == x >= v.lowBound

AdmitsFlag(v, x2) == IF v.cat = "Binary" THEN x2 \in {0, 2} ELSE x2 \in HalfZ

\* the constraints of the problem on the variables of t; every constraint
\* mentions one export variable and the flag of one timestamp
ConstraintsOf(t) == SelectSeq(constraints, LAMBDA c : c.t = t)

\* the values of export variable v (named var) that are within its bounds
\* and satisfy every constraint of cs on it when the flag is x2 / 2
Allowed(v, var, cs, x2) ==
    {x \in Grid : /\ AdmitsExport(v, x)
                  /\ \A j \in 1..Len(cs) :
                        cs[j].var = var => Sat(cs[j], x, x2)}

\* the points within the bounds of the three variables of t that satisfy
\* every constraint on them
FeasAt(t) ==
    LET cs == ConstraintsOf(t)
    IN  UNION {[km : Allowed(ruajtja_km[t], "km", cs, x2),
                mk : Allowed(ruajtja_mk[t], "mk", cs, x2),
                z2 : {x2}] : x2 \in {x \in HalfZ : AdmitsFlag(z[t], x)}}

ObjAt(t, p) == objective.km[t] * p.km + objective.mk[t] * p.mk

\* variant: the problem created with LpMinimize
OptAt_Minimize(t) ==
    LET F == FeasAt(t)
    IN  {p \in F : \A q \in F : ObjAt(t, q) >= ObjAt(t, p)}

\* LpMaximize
OptAt(t) ==
    LET F == FeasAt(t)
    IN  {p \in F : \A q \in F : ObjAt(t, q) <= ObjAt(t, p)}

RECURSIVE Assignments(_)
Assignments(S) ==
    IF S = {} THEN {[u \in {} |-> 0]}
    ELSE LET t == CHOOSE x \in S : TRUE
             rest == Assignments(S \ {t})
         IN  {[u \in S |-> IF u = t THEN p ELSE f[u]] :
                  p \in OptAt(t), f \in rest}

Keys == DOMAIN ruajtja_km

RECURSIVE SumOver(_, _)
SumOver(S, f) ==
    IF S = {} THEN 0
    ELSE LET t == CHOOSE x \in S : TRUE
         IN  f[t] + SumOver(S \ {t}, f)

\* value of the objective expression under an assignment
ObjectiveValue(a) == SumOver(DOMAIN a, [t \in DOMAIN a |-> ObjAt(t, a[t])])

(* ---------------- result extraction ---------------- *)

\* variant: the rows listed last timestamp first
ExtractRows_Reversed(keys, a) ==
    [j \in 1..Len(keys) |->
        [Koha |-> keys[Len(keys) + 1 - j],
         KM |-> a[keys[Len(keys) + 1 - j]].km,
         MK |-> a[keys[Len(keys) + 1 - j]].mk]]

\* pd.DataFrame({"Koha": koha, "Ruajtja KM": [...], "Ruajtja MK": [...]})
ExtractRows(keys, a) ==
    [j \in 1..Len(keys) |->
        [Koha |-> keys[j], KM |-> a[keys[j]].km, MK |-> a[keys[j]].mk]]

(* ---------------- the pipeline ---------------- *)

Init ==
    /\ kosovo_data \in KosovoFrames
    /\ macedonia_data \in MacedoniaFrames
    /\ koha = <<>>
    /\ ruajtja_km = <<>>
    /\ ruajtja_mk = <<>>
    /\ z = <<>>
    /\ objective = [km |-> <<>>, mk |-> <<>>]
    /\ constraints = <<>>
    /\ i = 1
    /\ status = "Not Solved"
    /\ solution = <<>>
    /\ rezultatet = <<>>
    /\ csv_written = FALSE
    /\ pc = "variables"
    /\ err = "none"

CreateVariables ==
    /\ pc = "variables"
    /\ koha' = TimeList(kosovo_data)
    /\ ruajtja_km' = Dicts(koha', NewExportVar)
    /\ ruajtja_mk' = Dicts(koha', NewExportVar)
    /\ z' = Dicts(koha', NewFlagVar)
    /\ pc' = "objective"
    /\ UNCHANGED <<kosovo_data, macedonia_data, objective, constraints, i,
                   status, solution, rezultatet, csv_written, err>>

SetObjective ==
    /\ pc = "objective"
    /\ objective' = LpSumObjective(koha)
    /\ pc' = "constraints"
    /\ UNCHANGED <<kosovo_data, macedonia_data, koha, ruajtja_km, ruajtja_mk,
                   z, constraints, i, status, solution, rezultatet,
                   csv_written, err>>

\* one iteration of the loop over koha, both lookups succeeding
AddConstraints ==
    /\ pc = "constraints"
    /\ i <= Len(koha)
    /\ LET t == koha[i]
           xk == Values(kosovo_data, "XK", t)
           mk == Values(macedonia_data, "MK", t)
       IN  /\ xk # <<>>
           /\ mk # <<>>
           /\ constraints' = constraints \o
                 <<BigM_km(t), BigM_mk(t), Cap_km(t, xk[1]), Cap_mk(t, mk[1])>>
    /\ i' = i + 1
    /\ UNCHANGED <<kosovo_data, macedonia_data, koha, ruajtja_km, ruajtja_mk,
                   z, objective, status, solution, rezultatet, csv_written,
                   pc, err>>

\* one iteration whose macedonia_data lookup finds no row: .values[0] of an
\* empty array raises IndexError after the first three constraints were added
LookupFails ==
    /\ pc = "constraints"
    /\ i <= Len(koha)
    /\ LET t == koha[i]
           xk == Values(kosovo_data, "XK", t)
           mk == Values(macedonia_data, "MK", t)
       IN  /\ xk # <<>>
           /\ mk = <<>>
           /\ constraints' = constraints \o
                 <<BigM_km(t), BigM_mk(t), Cap_km(t, xk[1])>>
    /\ pc' = "error"
    /\ err' = "IndexError"
    /\ UNCHANGED <<kosovo_data, macedonia_data, koha, ruajtja_km, ruajtja_mk,
                   z, objective, i, status, solution, rezultatet,
                   csv_written>>

\* problemi.solve() on a problem that has a feasible point
SolveOptimal ==
    /\ pc = "constraints"
    /\ i > Len(koha)
    /\ \A t \in Keys : FeasAt(t) # {}
    /\ status' = "Optimal"
    /\ solution' \in Assignments(Keys)
    /\ pc' = "results"
    /\ UNCHANGED <<kosovo_data, macedonia_data, koha, ruajtja_km, ruajtja_mk,
                   z, objective, constraints, i, rezultatet, csv_written,
                   err>>

\* problemi.solve() on a problem without a feasible point
SolveInfeasible ==
    /\ pc = "constraints"
    /\ i > Len(koha)
    /\ \E t \in Keys : FeasAt(t) = {}
    /\ status' = "Infeasible"
    /\ solution' = [t \in Keys |-> [km |-> Unspecified,
                                     mk |-> Unspecified,
                                     z2 |-> Unspecified]]
    /\ pc' = "results"
    /\ UNCHANGED <<kosovo_data, macedonia_data, koha, ruajtja_km, ruajtja_mk,
                   z, objective, constraints, i, rezultatet, csv_written,
                   err>>

\* print the status, build rezultatet, write rezultatet_optimizimi.csv
SaveResults ==
    /\ pc = "results"
    /\ rezultatet' = ExtractRows(koha, solution)
    /\ csv_written' = TRUE
    /\ pc' = "done"
    /\ UNCHANGED <<kosovo_data, macedonia_data, koha, ruajtja_km, ruajtja_mk,
                   z, objective, constraints, i, status, solution, err>>

Next ==
    \/ CreateVariables
    \/ SetObjective
    \/ AddConstraints
    \/ LookupFails
    \/ SolveOptimal
    \/ SolveInfeasible
    \/ SaveResults

Spec == Init /\ [][Next]_vars

(* ---------------- vocabulary of the properties ---------------- *)

TimesA == {kosovo_data[j].time : j \in 1..Len(kosovo_data)}

TimesB == {macedonia_data[j].time : j \in 1..Len(macedonia_data)}

\* index of the first row of t in a frame
FirstRow(data, t) ==
    CHOOSE j \in 1..Len(data) :
        /\ data[j].time = t
        /\ \A k \in 1..(j - 1) : data[k].time # t

\* production of Kosovo / North Macedonia at a timestamp of the series; when
\* the timestamp is repeated in the file, the reading of its first row
ProdA(t) == kosovo_data[FirstRow(kosovo_data, t)].XK

ProdB(t) == macedonia_data[FirstRow(macedonia_data, t)].MK

AllProd == {kosovo_data[j].XK : j \in 1..Len(kosovo_data)}
              \cup {macedonia_data[j].MK : j \in 1..Len(macedonia_data)}

Max(a, b) == IF a >= b THEN a ELSE b

Min(a, b) == IF a <= b THEN a ELSE b

\* the constraint loop has run to its end and the complete model is about
\* to be handed to the solver; the variables and constraints do not change
\* afterwards
Built == pc = "constraints" /\ i > Len(koha)

Solved == pc \in {"results", "done"}

MissingInB == TimesA \ TimesB # {}

MissingInA == TimesB \ TimesA # {}

BigMTooSmall == \E v \in AllProd : M <= v

Positions == 1..Len(koha)

(* ---------------- C1 ---------------- *)

\* C1: at every timestamp every point that satisfies the variable bounds and
\* the constraints has one of the two exports equal to zero, and so has the
\* solution reported as Optimal; the exclusivity is a property of the
\* feasible set, whatever the objective prefers.
Thm_C1 ==
    /\ Built => \A t \in Keys : \A p \in FeasAt(t) : p.km = 0 \/ p.mk = 0
    /\ (Solved /\ status = "Optimal") =>
          \A t \in Keys : solution[t].km = 0 \/ solution[t].mk = 0

Wit_C1 ==
    /\ pc = "done"
    /\ status = "Optimal"
    /\ \E t \in Keys : /\ ProdA(t) > 0
                       /\ ProdB(t) > 0
                       /\ solution[t].km + solution[t].mk > 0

(* ---------------- C2 ---------------- *)

\* C2: in the complete model every feasible point, and the Optimal solution,
\* keeps each export between zero and the production of the exporting
\* region at the same timestamp.
Thm_C2 ==
    /\ Built =>
          \A t \in Keys : \A p \in FeasAt(t) :
             /\ 0 <= p.km /\ p.km <= ProdA(t)
             /\ 0 <= p.mk /\ p.mk <= ProdB(t)
    /\ (Solved /\ status = "Optimal") =>
          \A t \in Keys :
             /\ 0 <= solution[t].km /\ solution[t].km <= ProdA(t)
             /\ 0 <= solution[t].mk /\ solution[t].mk <= ProdB(t)

Wit_C2 ==
    /\ pc = "done"
    /\ status = "Optimal"
    /\ \E t \in Keys : solution[t].km = ProdA(t) /\ ProdA(t) > 0
    /\ \E t \in Keys : solution[t].mk = ProdB(t) /\ ProdB(t) > 0

(* ---------------- C3 ---------------- *)

SumMaxProd ==
    SumOver(Positions, [j \in Positions |-> Max(ProdA(koha[j]), ProdB(koha[j]))])

\* C3: when M exceeds every production value, the objective value of an
\* Optimal solution is the sum over the timestamps of the larger of the two
\* productions (a timestamp listed k times in Kosovo's file is counted k
\* times).
Thm_C3 ==
    (Solved /\ status = "Optimal" /\ ~BigMTooSmall) =>
        ObjectiveValue(solution) = SumMaxProd

\* the scenario T = {t1}, prodA = 10, prodB = 4: objective 10
Wit_C3 ==
    /\ pc = "done"
    /\ status = "Optimal"
    /\ kosovo_data = <<[time |-> 1, XK |-> 10]>>
    /\ macedonia_data = <<[time |-> 1, MK |-> 4]>>
    /\ ObjectiveValue(solution) = 10

(* ---------------- C4 ---------------- *)

\* C4: with M less than or equal to some production value the build fails
\* and the solver is never invoked.
CE_C4 == BigMTooSmall => (~Solved /\ status = "Not Solved")

(* ---------------- C5 ---------------- *)

\* C5: a timestamp of Kosovo's series missing from North Macedonia's makes
\* the run fail with MissingTimestamp before any export or flag variable
\* exists, and the solver is never reached.
CE_C5 ==
    MissingInB => /\ Keys = {}
                  /\ DOMAIN ruajtja_mk = {}
                  /\ DOMAIN z = {}
                  /\ ~Solved
                  /\ pc = "error" => err = "MissingTimestamp"

(* ---------------- C6 ---------------- *)

\* C6: unless the status is Optimal no result row is produced or written.
CE_C6 == status # "Optimal" => (rezultatet = <<>> /\ ~csv_written)

(* ---------------- C7 ---------------- *)

\* C7 as stated: flag 0 leaves only Kosovo -> Macedonia free (the opposite
\* export is zero), flag 1 leaves only Macedonia -> Kosovo free.
CE_C7 ==
    Built =>
      \A t \in Keys : \A p \in FeasAt(t) :
         /\ p.z2 = 0 => p.mk = 0
         /\ p.z2 = 2 => p.km = 0

\* C7 amended: flag 0 forces the Kosovo -> Macedonia export to zero, flag 1
\* forces the Macedonia -> Kosovo export to zero, in every feasible point
\* and in the Optimal solution.
Thm_C7 ==
    /\ Built =>
          \A t \in Keys : \A p \in FeasAt(t) :
             /\ p.z2 = 0 => p.km = 0
             /\ p.z2 = 2 => p.mk = 0
    /\ (Solved /\ status = "Optimal") =>
          \A t \in Keys :
             /\ solution[t].z2 \in {0, 2}
             /\ solution[t].z2 = 0 => solution[t].km = 0
             /\ solution[t].z2 = 2 => solution[t].mk = 0

Wit_C7 ==
    /\ pc = "done"
    /\ status = "Optimal"
    /\ \E t \in Keys : solution[t].z2 = 0 /\ solution[t].mk > 0
    /\ \E t \in Keys : solution[t].z2 = 2 /\ solution[t].km > 0

(* ---------------- C8 ---------------- *)

\* C8: a run that ends without a failure has a result row for every
\* timestamp of either series.
CE_C8 ==
    pc = "done" =>
       \A t \in TimesA \cup TimesB :
          \E j \in 1..Len(rezultatet) : rezultatet[j].Koha = t

(* ---------------- C9 ---------------- *)

\* C9: after an Optimal solve the table has one row per entry of the
\* timestamp list, in the order of Kosovo's series, and row j holds the
\* solved exports of the j-th timestamp (a timestamp repeated in Kosovo's
\* file is an entry, and a row, each time it is listed).
Thm_C9 ==
    (pc = "done" /\ status = "Optimal") =>
       /\ Len(rezultatet) = Len(kosovo_data)
       /\ \A j \in 1..Len(kosovo_data) :
             /\ rezultatet[j].Koha = kosovo_data[j].time
             /\ rezultatet[j].KM = solution[kosovo_data[j].time].km
             /\ rezultatet[j].MK = solution[kosovo_data[j].time].mk

Wit_C9 ==
    /\ pc = "done"
    /\ status = "Optimal"
    /\ Len(rezultatet) = 2
    /\ rezultatet[1].Koha > rezultatet[2].Koha
    /\ rezultatet[1].KM # rezultatet[2].KM

(* ---------------- C10 ---------------- *)

SumMaxCapped ==
    SumOver(Positions,
            [j \in Positions |-> Max(Min(ProdA(koha[j]), M),
                                     Min(ProdB(koha[j]), M))])

\* C10: also when M is not above the production values, every feasible
\* point has one export equal to zero and each export is at most the
\* smaller of the production and M; the Optimal objective value is the sum
\* over the timestamps of the larger of the two capped productions.
Thm_C10 ==
    /\ Built =>
          \A t \in Keys : \A p \in FeasAt(t) :
             /\ p.km = 0 \/ p.mk = 0
             /\ p.km <= Min(ProdA(t), M)
             /\ p.mk <= Min(ProdB(t), M)
    /\ (Solved /\ status = "Optimal") =>
          ObjectiveValue(solution) = SumMaxCapped

Wit_C10 ==
    /\ pc = "done"
    /\ status = "Optimal"
    /\ \E t \in Keys : /\ ProdA(t) > M
                       /\ solution[t].km = M
                       /\ solution[t].mk = 0
    /\ ObjectiveValue(solution) < SumMaxProd

====
